---------------------------- MODULE Spec2Model ----------------------------
(***************************************************************************)
(* Model of src/Bento/code.ts: the bento layout generator and the colour   *)
(* palette generator that share one plugin script.                         *)
(*                                                                         *)
(* Numbers.  The script computes in IEEE doubles; the model computes the   *)
(* same quantities exactly, as integers over a fixed denominator or as     *)
(* fractions <<numerator, denominator>>:                                   *)
(*   - a table lightness or saturation is kept in hundredths;              *)
(*   - a lightness is kept in units of 1/5100 (255 * 2 * 10), so that      *)
(*     (max + min) / 2 of two 8-bit channels and a table entry share a     *)
(*     denominator;                                                        *)
(*   - a hue or a saturation is a fraction <<n, d>> with d > 0.            *)
(* Two distinct lightness distances differ by at least 1/5100 in the model, *)
(* far more than a rounding error of a double, so the nearest-weight scan  *)
(* of the script compares as the model does; at the one exact tie          *)
(* (lightness 0.9, weights 100 and 200) the doubles 0.0399999... and       *)
(* 0.0400000... select weight 100, the weight the strict comparison keeps  *)
(* on a tie.                                                               *)
(* Strings are sequences of one-character strings.                         *)
(***************************************************************************)
EXTENDS Integers, Sequences, FiniteSets, TLC

VARIABLES
    \* ---- plugin script and host document ----
    pc,            \* position of the script / of the running handler
    onmessage,     \* handler installed in figma.ui.onmessage
    ui,            \* options of the last figma.showUI call
    closed,        \* figma.closePlugin() has been called
    handled,       \* messages delivered so far
    msg,           \* message being handled (or handled last)
    collections,   \* variable collections of the document: Seq of names
    styles,        \* paint styles of the document
    variables,     \* colour variables of the document
    notifications, \* figma.notify calls
    frames,        \* top-level frames created by generateBento
    loc,           \* locals of the palette handler
    \* ---- colour conversion utilities called on their own ----
    cpc, hexIn, rgbIn, rgbOut, hexOut,
    \* ---- generateBento called on its own ----
    bpc, payload, frame

hostVars == <<pc, onmessage, ui, closed, handled, msg, collections, styles,
              variables, notifications, frames, loc>>
convVars == <<cpc, hexIn, rgbIn, rgbOut, hexOut>>
bentoVars == <<bpc, payload, frame>>
vars == <<hostVars, convVars, bentoVars>>

null == "null"

\* the null of a function returning RGB | null: a record no colour equals
NoRgb == [r |-> -1, g |-> -1, b |-> -1]

-----------------------------------------------------------------------------
(* Bounds of the model *)

\* messages the UI posts in one run of the plugin
MaxMsgs == 2
\* how many entries of SeedChannelList the seed strings are built from
NSeedChannels == 6
\* longest string handed to hexToRgb on its own
MaxLen == 7
\* largest rows / cols of a 'grid' payload
MaxGrid == 3

-----------------------------------------------------------------------------
(* Characters *)

Digits == <<"0", "1", "2", "3", "4", "5", "6", "7", "8", "9">>
LowerAF == <<"a", "b", "c", "d", "e", "f">>
UpperAF == <<"A", "B", "C", "D", "E", "F">>

Range(s) == {s[k] : k \in 1..Len(s)}

IndexOf(s, c) == CHOOSE k \in 1..Len(s) : s[k] = c

\* the class [a-f\d] under the i flag
HexDigitChars == Range(Digits) \cup Range(LowerAF) \cup Range(UpperAF)
IsHexDigit(c) == c \in HexDigitChars

\* parseInt(c, 16) of one hexadecimal digit
HexValue(c) ==
    IF c \in Range(Digits) THEN IndexOf(Digits, c) - 1
    ELSE IF c \in Range(LowerAF) THEN IndexOf(LowerAF, c) + 9
    ELSE IndexOf(UpperAF, c) + 9

\* parseInt(s, 16) of a string of hexadecimal digits
RECURSIVE parseInt16(_)
parseInt16(s) ==
    IF s = <<>> THEN 0
    ELSE 16 * parseInt16(SubSeq(s, 1, Len(s) - 1)) + HexValue(s[Len(s)])

\* the string without the optional leading '#' of the pattern  ^#?...$
StripHash(s) == IF s # <<>> /\ s[1] = "#" THEN Tail(s) ELSE s

\* s matches  /^#?([a-f\d]){n}$/i
MatchesHex(s, n) ==
    LET body == StripHash(s)
    IN  Len(body) = n /\ \A k \in 1..n : IsHexDigit(body[k])

\* hex.replace(shorthandRegex, (m, r, g, b) => r + r + g + g + b + b)
ExpandNoReplace(s) == s
ExpandShorthand(s) ==
    IF MatchesHex(s, 3)
    THEN LET b == StripHash(s) IN <<b[1], b[1], b[2], b[2], b[3], b[3]>>
    ELSE s

hexToRgb(hex) ==
    LET h == ExpandShorthand(hex)
    IN  IF MatchesHex(h, 6)
        THEN LET b == StripHash(h)
             IN  [r |-> parseInt16(SubSeq(b, 1, 2)),
                  g |-> parseInt16(SubSeq(b, 3, 4)),
                  b |-> parseInt16(SubSeq(b, 5, 6))]
        ELSE NoRgb

\* Number.prototype.toString(16) of a non-negative integer
RECURSIVE toString16(_)
toString16(n) ==
    LET d == n % 16
        c == IF d < 10 THEN Digits[d + 1] ELSE LowerAF[d - 9]
    IN  IF n < 16 THEN <<c>> ELSE Append(toString16(n \div 16), c)

\* String.prototype.padStart(n, '0')
RECURSIVE padStart0(_, _)
padStart0(s, n) == IF Len(s) >= n THEN s ELSE padStart0(<<"0">> \o s, n)

\* (1 << 24) + (r << 16) + (g << 8) + b; with 8-bit channels the sum stays
\* below 2^25, inside the 32-bit range of the shifts
PackNoMarker(r, g, b) == r * 65536 + g * 256 + b
PackRgb(r, g, b) == 16777216 + r * 65536 + g * 256 + b

rgbToHex(r, g, b) ==
    <<"#">> \o padStart0(Tail(toString16(PackRgb(r, g, b))), 6)

-----------------------------------------------------------------------------
(* rgbToHsl *)

Max2(a, b) == IF a >= b THEN a ELSE b
Min2(a, b) == IF a <= b THEN a ELSE b
Abs(x) == IF x < 0 THEN -x ELSE x

\* units of a lightness: 1/5100
LUnit == 2 * 255 * 10

\* a fraction <<n, d>> compared with 0 and 1 (d > 0)
FracLe1(f) == f[1] <= f[2]
FracGe0(f) == f[1] >= 0

\* [h, s, l] of 8-bit channels: h and s fractions, l in units of 1/5100
rgbToHsl(r, g, b) ==
    LET max == Max2(r, Max2(g, b))
        min == Min2(r, Min2(g, b))
        d == max - min
        \* l = (max + min) / 2 of channels divided by 255
        l == 10 * (max + min)
        \* l > 0.5 ? d / (2 - max - min) : d / (max + min)
        s == IF 2 * l > LUnit THEN <<d, 510 - max - min>> ELSE <<d, max + min>>
        \* switch (max), then h /= 6
        h == IF max = r THEN <<(g - b) + (IF g < b THEN 6 * d ELSE 0), 6 * d>>
             ELSE IF max = g THEN <<(b - r) + 2 * d, 6 * d>>
             ELSE <<(r - g) + 4 * d, 6 * d>>
    IN  IF max # min THEN [h |-> h, s |-> s, l |-> l]
        ELSE [h |-> <<0, 1>>, s |-> <<0, 1>>, l |-> l]

-----------------------------------------------------------------------------
(* Constants of the adaptive algorithm, in hundredths *)

ALL_WEIGHTS ==
    <<"50", "100", "200", "300", "400", "500", "600", "700", "800", "900", "950">>

LightnessSwapped ==
    [w \in Range(ALL_WEIGHTS) |->
        CASE w = "50" -> 97 [] w = "100" -> 94 [] w = "200" -> 86
          [] w = "300" -> 65 [] w = "400" -> 76 [] w = "500" -> 54
          [] w = "600" -> 43 [] w = "700" -> 32 [] w = "800" -> 22
          [] w = "900" -> 13 [] w = "950" -> 6]
TARGET_LIGHTNESS ==
    [w \in Range(ALL_WEIGHTS) |->
        CASE w = "50" -> 97 [] w = "100" -> 94 [] w = "200" -> 86
          [] w = "300" -> 76 [] w = "400" -> 65 [] w = "500" -> 54
          [] w = "600" -> 43 [] w = "700" -> 32 [] w = "800" -> 22
          [] w = "900" -> 13 [] w = "950" -> 6]

TARGET_SATURATION ==
    [w \in Range(ALL_WEIGHTS) |->
        CASE w = "50" -> 80 [] w = "100" -> 85 [] w = "200" -> 90
          [] w = "300" -> 95 [] w = "400" -> 100 [] w = "500" -> 100
          [] w = "600" -> 100 [] w = "700" -> 98 [] w = "800" -> 95
          [] w = "900" -> 90 [] w = "950" -> 85]

\* a table lightness in units of 1/5100
TargetL(w) == 51 * TARGET_LIGHTNESS[w]

\* let minLightnessDiff = Infinity
Infinity == 2147483647

\* if (diff < minLightnessDiff)
CloserOrEqual(diff, minDiff) == diff <= minDiff
Closer(diff, minDiff) == diff < minDiff

\* the scan  for (const weight of ALL_WEIGHTS) { ... }  from the k-th weight on,
\* entered with the baseWeight and minLightnessDiff of the iterations before
RECURSIVE ClosestScan(_, _, _, _)
ClosestScan(inputL, k, baseWeight, minLightnessDiff) ==
    IF k > Len(ALL_WEIGHTS) THEN baseWeight
    ELSE LET weight == ALL_WEIGHTS[k]
             diff == Abs(inputL - TargetL(weight))
         IN  IF Closer(diff, minLightnessDiff)
             THEN ClosestScan(inputL, k + 1, weight, diff)
             ELSE ClosestScan(inputL, k + 1, baseWeight, minLightnessDiff)

\* let baseWeight = '500'; let minLightnessDiff = Infinity; then the scan
ClosestWeight(inputL) == ClosestScan(inputL, 1, "500", Infinity)

\* lightnessDelta = inputL - TARGET_LIGHTNESS[baseWeight], in units of 1/5100
LightnessDelta(inputL, baseWeight) == inputL - TargetL(baseWeight)

\* saturationDelta = inputS - TARGET_SATURATION[baseWeight] * inputS
SaturationDelta(inputS, baseWeight) ==
    <<inputS[1] * (100 - TARGET_SATURATION[baseWeight]), 100 * inputS[2]>>

\* newLightness = TARGET_LIGHTNESS[weight] + lightnessDelta
NewLightness(weight, lightnessDelta) == TargetL(weight) + lightnessDelta

\* newSaturation = TARGET_SATURATION[weight] * inputS + saturationDelta
\* (both terms are over the denominator 100 * inputS[2])
NewSaturation(weight, inputS, saturationDelta) ==
    <<TARGET_SATURATION[weight] * inputS[1] + saturationDelta[1], 100 * inputS[2]>>

\* Math.max(0, Math.min(1, x)) of a lightness and of a fraction
ClampL(x) == Max2(0, Min2(LUnit, x))
UnclampedS(f) == f
ClampS(f) == IF ~FracLe1(f) THEN <<1, 1>> ELSE IF ~FracGe0(f) THEN <<0, 1>> ELSE f

-----------------------------------------------------------------------------
(* Messages the UI posts *)

SeedChannelList ==
    << <<"3", "B">>, <<"8", "2">>, <<"F", "6">>, <<"f", "f">>, <<"c", "c">>,
       <<"0", "0">>, <<"8", "0">>, <<"0", "1">> >>

SeedChannels == {SeedChannelList[k] : k \in 1..Min2(NSeedChannels, Len(SeedChannelList))}

SixDigitSeeds == {<<"#">> \o a \o b \o c : a, b, c \in SeedChannels}

OtherValidSeeds ==
    { <<"#", "0", "f", "0">>, <<"F", "c", "C">>, <<"3", "b", "8", "2", "f", "6">> }

InvalidSeeds ==
    { <<"n", "o", "t", "-", "a", "-", "c", "o", "l", "o", "r">>,
      <<"#", "f", "f">>,
      <<"#", "3", "B", "8", "2", "F", "6", "0">> }

\* largest value of a colour channel
MaxChannel == 255

\* fully saturated reds of every lightness (max + min takes every value
\* 0..510), written the way rgbToHex writes a colour
SweepSeeds ==
    {rgbToHex(x, 0, 0) : x \in 0..MaxChannel} \cup
    {rgbToHex(MaxChannel, x, x) : x \in 0..MaxChannel}

Names == {"Brand", "Blue"}

NoPayload == [preset |-> null]

NoFrame == [name |-> null]

NoUI == [width |-> 0, height |-> 0, title |-> null]

DefaultPayload ==
    [preset |-> "golden", width |-> 800, height |-> 600, rows |-> 3, cols |-> 3,
     gap |-> 12, padding |-> 24]

PaletteMsg(n, h) ==
    [type |-> "generate-palette", name |-> n, hex |-> h, payload |-> NoPayload]

PaletteMsgs ==
    {PaletteMsg(n, h) : n \in Names, h \in OtherValidSeeds \cup InvalidSeeds}
    \cup {PaletteMsg("Brand", h) : h \in SixDigitSeeds \cup SweepSeeds}

BentoMsgs ==
    {[type |-> "generate", name |-> null, hex |-> <<>>, payload |-> DefaultPayload],
     [type |-> "relaunch", name |-> null, hex |-> <<>>, payload |-> NoPayload]}

Messages == PaletteMsgs \cup BentoMsgs

NoMsg == [type |-> null, name |-> null, hex |-> <<>>, payload |-> NoPayload]

NoLocals ==
    [collection |-> 0, inputH |-> <<0, 1>>, inputS |-> <<0, 1>>, inputL |-> 0,
     baseWeight |-> null, lightnessDelta |-> 0, saturationDelta |-> <<0, 1>>, i |-> 0]

-----------------------------------------------------------------------------
(* Bento presets and generateBento *)

Cell(row, col, rowSpan, colSpan) ==
    [row |-> row, col |-> col, rowSpan |-> rowSpan, colSpan |-> colSpan]

PresetKeys == {"grid", "golden", "heroRight", "heroLeft", "masonry6"}

PRESETS(key, r, c) ==
    CASE key = "grid" ->
            [rows |-> r, cols |-> c,
             cells |-> [k \in 1..(r * c) |-> Cell((k - 1) \div c, (k - 1) % c, 1, 1)]]
      [] key = "golden" ->
            [rows |-> 3, cols |-> 3,
             cells |-> << Cell(0, 0, 2, 2), Cell(0, 2, 1, 1), Cell(1, 2, 1, 1),
                          Cell(2, 0, 1, 1), Cell(2, 1, 1, 1), Cell(2, 2, 1, 1) >>]
      [] key = "heroRight" ->
            [rows |-> 3, cols |-> 4,
             cells |-> << Cell(0, 2, 3, 2), Cell(0, 0, 1, 1), Cell(0, 1, 1, 1),
                          Cell(1, 0, 1, 2), Cell(2, 0, 1, 1), Cell(2, 1, 1, 1) >>]
      [] key = "heroLeft" ->
            [rows |-> 3, cols |-> 4,
             cells |-> << Cell(0, 0, 3, 2), Cell(0, 2, 1, 1), Cell(0, 3, 1, 1),
                          Cell(1, 2, 1, 2), Cell(2, 2, 1, 1), Cell(2, 3, 1, 1) >>]
      [] key = "masonry6" ->
            [rows |-> 3, cols |-> 4,
             cells |-> << Cell(0, 0, 2, 2), Cell(0, 2, 1, 2), Cell(1, 2, 1, 1),
                          Cell(1, 3, 2, 1), Cell(2, 0, 1, 1), Cell(2, 1, 1, 1) >>]

\* The frame generateBento builds: the geometry of the frame and of its cards
\* (corner radius, shadow, fills and labels are left out).
\* unitW = gridWidth / cols and
\* unitH = gridHeight / rows need not be integers: a card keeps its horizontal
\* measures multiplied by cols (xs = x * cols, ws = w * cols) and its vertical
\* ones multiplied by rows (ys = y * rows, hs = h * rows).
generateBento(p) ==
    LET preset == PRESETS(p.preset, p.rows, p.cols)
        rows == preset.rows
        cols == preset.cols
        cells == preset.cells
        gridWidth == p.width - p.padding * 2 - p.gap * (cols - 1)
        gridHeight == p.height - p.padding * 2 - p.gap * (rows - 1)
        card(k) ==
            LET c == cells[k]
            IN  [name |-> <<"Card ", k>>,
                 xs |-> p.padding * cols + c.col * (gridWidth + p.gap * cols),
                 ys |-> p.padding * rows + c.row * (gridHeight + p.gap * rows),
                 ws |-> c.colSpan * gridWidth + (c.colSpan - 1) * p.gap * cols,
                 hs |-> c.rowSpan * gridHeight + (c.rowSpan - 1) * p.gap * rows]
    IN  [name |-> "Bento", width |-> p.width, height |-> p.height,
         rows |-> rows, cols |-> cols,
         children |-> [k \in 1..Len(cells) |-> card(k)]]

-----------------------------------------------------------------------------
(* The plugin script: top level *)

\* line 255: figma.ui.onmessage = (msg) => { ... }
InstallBentoHandler ==
    /\ pc = "l255"
    /\ onmessage' = "bento"
    /\ pc' = "l268"
    /\ UNCHANGED <<ui, closed, handled, msg, collections, styles, variables,
                   notifications, frames, loc, convVars, bentoVars>>

\* line 268: figma.showUI(__html__, { width: 360, height: 500, ... })
ShowBentoUI ==
    /\ pc = "l268"
    /\ ui' = [width |-> 360, height |-> 500, title |-> null]
    /\ pc' = "l271"
    /\ UNCHANGED <<onmessage, closed, handled, msg, collections, styles, variables,
                   notifications, frames, loc, convVars, bentoVars>>

\* line 271: figma.showUI(__html__, { width: 500, height: 700, title: ... })
ShowPaletteUI ==
    /\ pc = "l271"
    /\ ui' = [width |-> 500, height |-> 700, title |-> "Color Style Generator"]
    /\ pc' = "l334"
    /\ UNCHANGED <<onmessage, closed, handled, msg, collections, styles, variables,
                   notifications, frames, loc, convVars, bentoVars>>

\* line 334: figma.ui.onmessage = async (msg) => { ... }
InstallPaletteHandler ==
    /\ pc = "l334"
    /\ onmessage' = "palette"
    /\ pc' = "idle"
    /\ UNCHANGED <<ui, closed, handled, msg, collections, styles, variables,
                   notifications, frames, loc, convVars, bentoVars>>

-----------------------------------------------------------------------------
(* The message handlers *)

\* The handler of lines 255-265.  generateBento awaits only the font loader;
\* the frame and the closePlugin of its .then callback are taken as one step.
BentoHandler(m) ==
    /\ frames' = IF m.type = "generate"
                 THEN Append(frames, generateBento(m.payload)) ELSE frames
    /\ closed' = (m.type \in {"generate", "relaunch"})
    /\ pc' = "idle"
    /\ UNCHANGED <<collections, styles, variables, notifications, loc>>

\* The handler of lines 334-365, up to the ramp loop.
PaletteHandler(m) ==
    IF m.type = "generate-palette"
    THEN LET baseColorRgb == hexToRgb(m.hex)
             collection == Len(collections) + 1
         IN  /\ collections' = Append(collections, "UI Colors")
             /\ IF baseColorRgb = NoRgb
                THEN /\ notifications' =
                          Append(notifications,
                                 [text |-> "Invalid hex code provided.", error |-> TRUE])
                     /\ pc' = "idle"
                     /\ UNCHANGED loc
                ELSE LET hsl == rgbToHsl(baseColorRgb.r, baseColorRgb.g, baseColorRgb.b)
                         baseWeight == ClosestWeight(hsl.l)
                     IN  /\ loc' = [collection |-> collection,
                                    inputH |-> hsl.h, inputS |-> hsl.s, inputL |-> hsl.l,
                                    baseWeight |-> baseWeight,
                                    lightnessDelta |-> LightnessDelta(hsl.l, baseWeight),
                                    saturationDelta |-> SaturationDelta(hsl.s, baseWeight),
                                    i |-> 1]
                         /\ pc' = "ramp"
                         /\ UNCHANGED notifications
             /\ UNCHANGED <<closed, styles, variables, frames>>
    ELSE /\ pc' = "idle"
         /\ UNCHANGED <<closed, collections, styles, variables, notifications,
                        frames, loc>>

\* A message posted by the UI reaches the handler installed at that moment.
\* Messages are delivered by the event loop, so only once the top level of the
\* script has run to its end and no handler is running.
Deliver ==
    /\ pc = "idle"
    /\ ~closed
    /\ handled < MaxMsgs
    /\ \E m \in Messages :
          /\ msg' = m
          /\ IF onmessage = "bento" THEN BentoHandler(m) ELSE PaletteHandler(m)
    /\ handled' = handled + 1
    /\ UNCHANGED <<onmessage, ui, convVars, bentoVars>>

\* `${name}/${weight}` and `UI Colors/${name}/${weight}`
VariableName(name, weight) == <<name, "/", weight>>
StyleName(name, weight) == <<"UI Colors", "/", name, "/", weight>>

\* the loop  for (const weight of ALL_WEIGHTS)  has visited every weight
RampEndsEarly(i) == i >= Len(ALL_WEIGHTS)
RampFinished(i) == i > Len(ALL_WEIGHTS)

\* the hue handed to hslToRgb:  const hue = inputH
Hue(inputH) == inputH

\* One iteration of the loop of lines 368-406.  The paint of a style and the
\* value of a variable are kept as the arguments hslToRgb is called with; the
\* rounded channels it returns are read by no property below.
RampStep ==
    /\ pc = "ramp"
    /\ ~RampFinished(loc.i)
    /\ LET weight == ALL_WEIGHTS[loc.i]
           hue == Hue(loc.inputH)
           newLightness == NewLightness(weight, loc.lightnessDelta)
           newSaturation == NewSaturation(weight, loc.inputS, loc.saturationDelta)
           clampedL == ClampL(newLightness)
           clampedS == ClampS(newSaturation)
           color == [h |-> hue, s |-> clampedS, l |-> clampedL]
       IN  /\ styles' = Append(styles,
                               [name |-> StyleName(msg.name, weight), color |-> color])
           /\ variables' = Append(variables,
                                  [name |-> VariableName(msg.name, weight),
                                   collection |-> loc.collection, color |-> color])
    /\ loc' = [loc EXCEPT !.i = @ + 1]
    /\ UNCHANGED <<pc, onmessage, ui, closed, handled, msg, collections,
                   notifications, frames, convVars, bentoVars>>

\* lines 408-409: the success notification and figma.closePlugin()
RampDone ==
    /\ pc = "ramp"
    /\ RampFinished(loc.i)
    /\ notifications' = Append(notifications,
                               [text |-> <<msg.name, " styles created">>, error |-> FALSE])
    /\ closed' = TRUE
    /\ pc' = "idle"
    /\ UNCHANGED <<onmessage, ui, handled, msg, collections, styles, variables,
                   frames, loc, convVars, bentoVars>>

ConvIdle ==
    /\ cpc = "off" /\ hexIn = <<>> /\ rgbIn = NoRgb /\ rgbOut = NoRgb /\ hexOut = <<>>

BentoIdle ==
    /\ bpc = "off" /\ payload = NoPayload /\ frame = NoFrame

HostIdle ==
    /\ pc = "off" /\ onmessage = null /\ ui = NoUI /\ closed = FALSE
    /\ handled = 0 /\ msg = NoMsg /\ collections = <<>> /\ styles = <<>>
    /\ variables = <<>> /\ notifications = <<>> /\ frames = <<>> /\ loc = NoLocals

Init ==
    /\ pc = "l255" /\ onmessage = null /\ ui = NoUI /\ closed = FALSE
    /\ handled = 0 /\ msg = NoMsg /\ collections = <<>> /\ styles = <<>>
    /\ variables = <<>> /\ notifications = <<>> /\ frames = <<>> /\ loc = NoLocals
    /\ ConvIdle
    /\ BentoIdle

Next ==
    \/ InstallBentoHandler
    \/ ShowBentoUI
    \/ ShowPaletteUI
    \/ InstallPaletteHandler
    \/ Deliver
    \/ RampStep
    \/ RampDone

Spec == Init /\ [][Next]_vars

-----------------------------------------------------------------------------
(* The colour conversion utilities called on their own *)

HexAlphabet == {"#", "0", "f", "F", "g"}

Strings == UNION {[1..n -> HexAlphabet] : n \in 0..MaxLen}

ChannelSamples == {0, 1, 15, 16, 59, 130, 240, 246, 255}

Colors == [r : ChannelSamples, g : ChannelSamples, b : ChannelSamples]

\* hexToRgb(s), and rgbToHex of its channels when it is a colour
ParseHex ==
    /\ cpc = "ready"
    /\ \E s \in Strings :
          /\ hexIn' = s
          /\ rgbOut' = hexToRgb(s)
          /\ hexOut' = IF hexToRgb(s) = NoRgb THEN <<>>
                       ELSE rgbToHex(hexToRgb(s).r, hexToRgb(s).g, hexToRgb(s).b)
    /\ cpc' = "parsed"
    /\ UNCHANGED <<rgbIn, hostVars, bentoVars>>

\* rgbToHex(c), and hexToRgb of the string it returns
FormatRgb ==
    /\ cpc = "ready"
    /\ \E c \in Colors :
          /\ rgbIn' = c
          /\ hexOut' = rgbToHex(c.r, c.g, c.b)
          /\ rgbOut' = hexToRgb(rgbToHex(c.r, c.g, c.b))
    /\ cpc' = "formatted"
    /\ UNCHANGED <<hexIn, hostVars, bentoVars>>

InitHex ==
    /\ HostIdle
    /\ BentoIdle
    /\ cpc = "ready" /\ hexIn = <<>> /\ rgbIn = NoRgb /\ rgbOut = NoRgb /\ hexOut = <<>>

NextHex ==
    \/ ParseHex
    \/ FormatRgb

SpecHex == InitHex /\ [][NextHex]_vars

-----------------------------------------------------------------------------
(* generateBento called on its own *)

Widths == {500, 800}
Heights == {600}
Gaps == {0, 12}
Paddings == {0, 24}

Payloads ==
    [preset : PresetKeys, width : Widths, height : Heights,
     rows : 1..MaxGrid, cols : 1..MaxGrid, gap : Gaps, padding : Paddings]

RunGenerateBento ==
    /\ bpc = "ready"
    /\ frame' = generateBento(payload)
    /\ bpc' = "done"
    /\ UNCHANGED <<payload, hostVars, convVars>>

InitBento ==
    /\ HostIdle
    /\ ConvIdle
    /\ bpc = "ready" /\ payload \in Payloads /\ frame = NoFrame

NextBento == RunGenerateBento

SpecBento == InitBento /\ [][NextBento]_vars

-----------------------------------------------------------------------------
(* Properties of the palette handler, checked under Spec *)

\* the seed of the message being handled, as rgbToHsl returns it
SeedHsl ==
    LET c == hexToRgb(msg.hex) IN rgbToHsl(c.r, c.g, c.b)

ValidSeedRunning ==
    /\ msg.type = "generate-palette"
    /\ hexToRgb(msg.hex) # NoRgb
    /\ (pc = "ramp" \/ closed)

WeightsInOrder ==
    <<"50", "100", "200", "300", "400", "500", "600", "700", "800", "900", "950">>

\* |L - TARGET_LIGHTNESS[w]| in units of 1/5100
LightnessDiff(L, w) == Abs(L - 51 * TARGET_LIGHTNESS[w])

\* C1: when a 'generate-palette' message carries a seed hexToRgb rejects, the
\* handler returns having created no variable collection, no paint style and
\* no colour variable; its only effect is the error notification.
C1_InvalidSeedNoOutput ==
    [][ ( /\ pc = "idle"
          /\ handled' = handled + 1
          /\ msg'.type = "generate-palette"
          /\ hexToRgb(msg'.hex) = NoRgb )
        => ( /\ pc' = "idle"
             /\ collections' = collections
             /\ styles' = styles
             /\ variables' = variables
             /\ Len(notifications') = Len(notifications) + 1
             /\ closed' = closed ) ]_vars

C4_LightnessNonIncreasing ==
    /\ \A k \in 1..(Len(variables) - 1) : variables[k].color.l >= variables[k + 1].color.l
    /\ \A k \in 1..(Len(styles) - 1) : styles[k].color.l >= styles[k + 1].color.l

C4_Witness ==
    /\ closed
    /\ Len(variables) = 11
    /\ variables[1].color.l > variables[11].color.l
    /\ variables[1].color.l = LUnit

\* C5: at every weight the saturation and the lightness handed to hslToRgb lie
\* in [0,1], and the hue handed to it is the seed's hue as rgbToHsl returned it.
C5_ClampedAndHueKept ==
    ValidSeedRunning =>
        /\ \A k \in 1..Len(variables) :
              LET c == variables[k].color
              IN  /\ 0 <= c.l /\ c.l <= LUnit
                  /\ c.s[2] > 0 /\ 0 <= c.s[1] /\ c.s[1] <= c.s[2]
                  /\ c.h = SeedHsl.h
        /\ \A k \in 1..Len(styles) : styles[k].color = variables[k].color

\* a ramp in which the saturation of some weight had to be cut down to 1
C5_Witness ==
    /\ closed
    /\ Len(variables) = 11
    /\ \E k \in 1..11 :
          LET w == WeightsInOrder[k]
              raw == NewSaturation(w, loc.inputS, loc.saturationDelta)
          IN  raw[1] > raw[2] /\ variables[k].color.s = <<1, 1>>

\* C8: a valid seed registers exactly 11 variables, one per weight in table
\* order with none repeated or skipped, each named "<name>/<weight>", all in
\* the one collection this message created, and the plugin is closed only
\* after the 11th has been registered.
C8_ElevenEntriesThenClose ==
    /\ (closed => Len(variables) = 11 /\ ValidSeedRunning)
    /\ Len(variables) <= 11
    /\ Len(styles) = Len(variables)
    /\ (variables # <<>> => ValidSeedRunning)
    /\ ValidSeedRunning =>
          /\ (pc = "ramp" => Len(variables) = loc.i - 1)
          /\ loc.collection = Len(collections)
          /\ collections[loc.collection] = "UI Colors"
          /\ \A k \in 1..Len(variables) :
                /\ variables[k].name = <<msg.name, "/", WeightsInOrder[k]>>
                /\ variables[k].collection = loc.collection

\* the plugin closed with 11 variables in the second collection of the
\* document (an earlier message left the first)
C8_Witness ==
    /\ closed
    /\ Len(variables) = 11
    /\ variables[11].name = <<"Blue", "/", "950">>
    /\ Len(collections) = 2

\* C9: once the script has initialised, a 'generate' message makes
\* generateBento build the bento frame, after which the plugin is closed, and
\* a 'relaunch' message closes the plugin.
C9_BentoMessagesHandled ==
    [][ (pc = "idle" /\ handled' = handled + 1)
        => /\ (msg'.type = "generate" => Len(frames') = Len(frames) + 1 /\ closed')
           /\ (msg'.type = "relaunch" => closed') ]_vars

\* The case C3 speaks of (a seed whose lightness equals a table lightness)
\* does not arise: no seed a hex string can denote lies on the target
\* lightness curve, since with
\* 8-bit channels the lightness is a multiple of 1/510, and no table
\* lightness is a multiple of 1/10.
SeedLightnessOffCurve ==
    ValidSeedRunning => \A k \in 1..11 : LightnessDiff(SeedHsl.l, WeightsInOrder[k]) # 0

-----------------------------------------------------------------------------
(* Properties of hexToRgb and rgbToHex, checked under SpecHex *)

HexChars ==
    {"0", "1", "2", "3", "4", "5", "6", "7", "8", "9",
     "a", "b", "c", "d", "e", "f", "A", "B", "C", "D", "E", "F"}

\* an optional leading '#' followed by exactly n hexadecimal digits
HashAndDigits(s, n) ==
    \/ Len(s) = n /\ \A k \in 1..n : s[k] \in HexChars
    \/ Len(s) = n + 1 /\ s[1] = "#" /\ \A k \in 2..(n + 1) : s[k] \in HexChars

\* a 3-digit string with each digit written twice, its '#' kept
Doubled(s) ==
    IF s[1] = "#" THEN <<"#", s[2], s[2], s[3], s[3], s[4], s[4]>>
    ELSE <<s[1], s[1], s[2], s[2], s[3], s[3]>>

LowerChar(c) ==
    CASE c = "A" -> "a" [] c = "B" -> "b" [] c = "C" -> "c"
      [] c = "D" -> "d" [] c = "E" -> "e" [] c = "F" -> "f" [] OTHER -> c

\* String.prototype.toLowerCase
Lower(s) == [k \in 1..Len(s) |-> LowerChar(s[k])]

\* C6: hexToRgb returns a colour exactly for the strings made of an optional
\* leading '#' and 3 or 6 hexadecimal digits of either case, and null for
\* every other string; a 3-digit string gives the colour of the 6-digit
\* string with each digit doubled (#0f0 gives the colour of #00ff00).
C6_HexToRgbAccepts ==
    cpc = "parsed" =>
        /\ (rgbOut # NoRgb) <=> (HashAndDigits(hexIn, 3) \/ HashAndDigits(hexIn, 6))
        /\ HashAndDigits(hexIn, 3) =>
              /\ hexToRgb(Doubled(hexIn)) # NoRgb
              /\ rgbOut = hexToRgb(Doubled(hexIn))
        /\ (hexIn = <<"#", "0", "f", "0">> => rgbOut = [r |-> 0, g |-> 255, b |-> 0])

C6_Witness ==
    /\ cpc = "parsed"
    /\ hexIn = <<"#", "0", "f", "0">>
    /\ rgbOut = [r |-> 0, g |-> 255, b |-> 0]

\* hexToRgb(rgbToHex(c)) = c for a colour of 8-bit channels, and rgbToHex(c)
\* is '#' followed by exactly 6 hexadecimal digits
FormatThenParse ==
    cpc = "formatted" =>
        /\ rgbOut = rgbIn
        /\ Len(hexOut) = 7
        /\ hexOut[1] = "#"
        /\ \A k \in 2..7 : hexOut[k] \in HexChars

\* C7 as stated: for every valid 6-digit hex string x, rgbToHex of the
\* channels of hexToRgb(x) equals x compared case-insensitively; and
\* hexToRgb(rgbToHex(c)) = c, with rgbToHex(c) a '#' and 6 hexadecimal digits.
C7_RoundTripAsStated ==
    /\ (cpc = "parsed" /\ HashAndDigits(hexIn, 6)) => Lower(hexOut) = Lower(hexIn)
    /\ FormatThenParse

\* C7 amended: for every valid 6-digit hex string x, rgbToHex of the channels
\* of hexToRgb(x) equals, compared case-insensitively, '#' followed by the 6
\* digits of x: x itself when x starts with '#', and '#' + x when it does not;
\* and hexToRgb(rgbToHex(c)) = c, with rgbToHex(c) a '#' and 6 hexadecimal
\* digits.
C7_RoundTripUpToHash ==
    /\ (cpc = "parsed" /\ HashAndDigits(hexIn, 6)) =>
          /\ Lower(hexOut) =
                <<"#">> \o Lower(IF hexIn[1] = "#" THEN Tail(hexIn) ELSE hexIn)
          /\ (hexIn[1] = "#" => Lower(hexOut) = Lower(hexIn))
    /\ FormatThenParse

C7_Witness ==
    /\ cpc = "parsed"
    /\ hexIn = <<"#", "F", "f", "0", "0", "f", "F">>
    /\ hexOut = <<"#", "f", "f", "0", "0", "f", "f">>

-----------------------------------------------------------------------------
(* Properties of the presets and of generateBento, checked under SpecBento *)

\* the grid units a cell occupies
Units(c) ==
    {<<r, k>> : r \in c.row..(c.row + c.rowSpan - 1), k \in c.col..(c.col + c.colSpan - 1)}

CellsInGrid(p) ==
    \A i \in 1..Len(p.cells) :
        LET c == p.cells[i]
        IN  /\ c.row >= 0 /\ c.col >= 0 /\ c.rowSpan >= 1 /\ c.colSpan >= 1
            /\ c.row + c.rowSpan <= p.rows
            /\ c.col + c.colSpan <= p.cols

CellsDisjoint(p) ==
    \A i, j \in 1..Len(p.cells) :
        i # j => Units(p.cells[i]) \cap Units(p.cells[j]) = {}

GridCovered(p) ==
    \A r \in 0..(p.rows - 1), k \in 0..(p.cols - 1) :
        \E i \in 1..Len(p.cells) : <<r, k>> \in Units(p.cells[i])

\* the card rectangles are pairwise disjoint and lie within the frame inset by
\* the padding (horizontal measures are scaled by cols, vertical ones by rows)
CardsDisjointInside(f, p) ==
    /\ \A i, j \in 1..Len(f.children) :
          LET a == f.children[i]
              b == f.children[j]
          IN  i # j => \/ a.xs + a.ws <= b.xs \/ b.xs + b.ws <= a.xs
                       \/ a.ys + a.hs <= b.ys \/ b.ys + b.hs <= a.ys
    /\ \A i \in 1..Len(f.children) :
          LET a == f.children[i]
          IN  /\ a.xs >= p.padding * f.cols
              /\ a.xs + a.ws <= (p.width - p.padding) * f.cols
              /\ a.ys >= p.padding * f.rows
              /\ a.ys + a.hs <= (p.height - p.padding) * f.rows

\* C10: for every preset the returned cells tile the returned rows x cols grid
\* exactly (every cell within the grid, no grid unit shared, every grid unit
\* covered), and the card rectangles generateBento computes are pairwise
\* disjoint and lie within the frame inset by the padding.
C10_PresetsTileGrid ==
    bpc = "done" =>
        LET p == PRESETS(payload.preset, payload.rows, payload.cols)
        IN  /\ CellsInGrid(p)
            /\ CellsDisjoint(p)
            /\ GridCovered(p)
            /\ Len(frame.children) = Len(p.cells)
            /\ CardsDisjointInside(frame, payload)

\* What does hold of every preset: all of the above except the covering,
\* which holds of every preset other than masonry6.
PresetsTileExceptMasonry ==
    bpc = "done" =>
        LET p == PRESETS(payload.preset, payload.rows, payload.cols)
        IN  /\ CellsInGrid(p)
            /\ CellsDisjoint(p)
            /\ (payload.preset # "masonry6" => GridCovered(p))
            /\ Len(frame.children) = Len(p.cells)
            /\ CardsDisjointInside(frame, payload)

=============================================================================
